---------------------------- MODULE Spec2Model ----------------------------
(***************************************************************************)
(* A model of the oscillator engine of zyx-corporation/ttst:               *)
(*   src/src/coupled_oscillators.py  CoupledOscillator, TTSTCoupledSystem, *)
(*                                   StochasticResonance                   *)
(*   src/src/ttst_simulation.py      TTST                                  *)
(*                                                                         *)
(* Numbers.  A float is modelled as an exact rational [n, d] in lowest     *)
(* terms, or one of the three IEEE specials: +inf = [1,0], -inf = [-1,0],  *)
(* NaN = [0,0].  Division by zero, inf*0 and inf-inf behave as in IEEE     *)
(* arithmetic (numpy's float64 scalars and arrays).  Rounding error of     *)
(* finite values is not modelled.                                          *)
(*                                                                         *)
(* Angles.  Every angle is measured in quarter turns: 1 = pi/2 rad, so     *)
(* 2*pi = 4.  np.sin is modelled by the odd, 4-periodic piecewise linear   *)
(* function that agrees with the sine at every multiple of a quarter turn. *)
(***************************************************************************)
EXTENDS Integers, Sequences, FiniteSets, TLC

-----------------------------------------------------------------------------
(* float64 values *)

Abs(x) == IF x < 0 THEN -x ELSE x

Sgn(x) == IF x > 0 THEN 1 ELSE IF x < 0 THEN -1 ELSE 0

RECURSIVE GCD(_, _)
GCD(a, b) == IF b = 0 THEN a ELSE GCD(b, a % b)

Q(n, d) ==
    IF d = 0 THEN [n |-> Sgn(n), d |-> 0]
    ELSE LET g == GCD(Abs(n), Abs(d))
             s == Sgn(d)
         IN  [n |-> (s * n) \div g, d |-> (s * d) \div g]

I(k) == [n |-> k, d |-> 1]

Zero == I(0)

One == I(1)

NaN == [n |-> 0, d |-> 0]

PosInf == [n |-> 1, d |-> 0]

IsNaN(a) == a.d = 0 /\ a.n = 0

IsFinite(a) == a.d # 0

NNeg(a) == [n |-> -a.n, d |-> a.d]

\* a * b; common factors are cancelled before the products are formed
NMul(a, b) ==
    IF a.d = 0 \/ b.d = 0 \/ a.n = 0 \/ b.n = 0 THEN Q(a.n * b.n, a.d * b.d)
    ELSE LET g1 == GCD(Abs(a.n), b.d)
             g2 == GCD(Abs(b.n), a.d)
         IN  Q((a.n \div g1) * (b.n \div g2), (a.d \div g2) * (b.d \div g1))

NRecip(a) ==
    IF a.d = 0 THEN (IF a.n = 0 THEN NaN ELSE Zero)
    ELSE IF a.n = 0 THEN PosInf
    ELSE Q(a.d, a.n)

NDiv(a, b) == NMul(a, NRecip(b))

NAdd(a, b) ==
    IF a.d # 0 /\ b.d # 0
    THEN LET g == GCD(a.d, b.d)
         IN  Q(a.n * (b.d \div g) + b.n * (a.d \div g), (a.d \div g) * b.d)
    ELSE IF IsNaN(a) \/ IsNaN(b) THEN NaN
    ELSE IF a.d = 0 /\ b.d = 0 THEN (IF a.n = b.n THEN a ELSE NaN)
    ELSE IF a.d = 0 THEN a ELSE b

NSub(a, b) == NAdd(a, NNeg(b))

\* a < b; every comparison with NaN is false
NLt(a, b) ==
    IF IsNaN(a) \/ IsNaN(b) THEN FALSE
    ELSE IF a.d = 0 /\ b.d = 0 THEN a.n < b.n
    ELSE IF a.d = 0 THEN a.n < 0
    ELSE IF b.d = 0 THEN b.n > 0
    ELSE LET g == GCD(a.d, b.d)
         IN  a.n * (b.d \div g) < b.n * (a.d \div g)

NLe(a, b) == ~IsNaN(a) /\ ~IsNaN(b) /\ ~NLt(b, a)

\* the cast of a float to int64 on assignment into an integer array: toward zero
Trunc(a) ==
    IF a.d = 0 THEN a
    ELSE IF a.n >= 0 THEN I(a.n \div a.d) ELSE I(-((-a.n) \div a.d))

\* np.mod(a, 2*pi), in quarter turns: the representative in [0, 4)
Mod2Pi(a) == IF a.d = 0 THEN NaN ELSE Q(a.n % (4 * a.d), a.d)

\* np.sin, in quarter turns
Sin(a) ==
    IF a.d = 0 THEN NaN
    ELSE LET r == Mod2Pi(a)
         IN  IF NLe(r, One) THEN r
             ELSE IF NLe(r, I(3)) THEN NSub(I(2), r)
             ELSE NSub(r, I(4))

RECURSIVE NSum(_, _)
NSum(f, S) ==
    IF S = {} THEN Zero
    ELSE LET k == CHOOSE k \in S : \A m \in S : k <= m
         IN  NAdd(f[k], NSum(f, S \ {k}))

\* np.max over the values of a function: NaN as soon as one value is NaN
NMax(f) ==
    IF \E k \in DOMAIN f : IsNaN(f[k]) THEN NaN
    ELSE LET k == CHOOSE k \in DOMAIN f : \A m \in DOMAIN f : NLe(f[m], f[k])
         IN  f[k]

-----------------------------------------------------------------------------
(* Bounds of the model *)

\* the largest number of oscillators of a generic CoupledOscillator
MaxN == 2

\* the largest n_points of a coupling-strength sweep
MaxPoints == 3

\* the number of samples of a sweep trajectory (the code's grid, arange(0, 100, 0.1),
\* has 1000; the model integrates over a grid of this many points)
SweepSamples == 3

\* phases held by the integrator are kept to 1/PhaseRes of a quarter turn
PhaseRes == 12

\* the largest grid resolution of find_arnold_tongues
MaxResolution == 2

\* decimal logarithms are kept to their integer part, within -LogDigits..LogDigits
LogDigits == 3

\* the largest number of time steps of a trajectory handed to calculate_order_parameter
MaxRows == 2

-----------------------------------------------------------------------------
(* State *)

VARIABLES
    n_oscillators,  \* self.n_oscillators
    frequencies,    \* self.frequencies, a sequence of n_oscillators values
    freq_dtype,     \* its numpy dtype: "int64" (built from Python ints) or "float64"
    amplitudes,     \* self.amplitudes
    coupling,       \* self.coupling: coupling[i][j], the influence of j on i
    constructed,    \* what the constructor stored (history, never read by the code)
    call,           \* the latest method call: operation, arguments before and after, how it ended, result
    again,          \* what a second call with the same arguments returned (<<>>: not made)
    rng,            \* the state of numpy's global random generator
    ata,            \* arnold_tongue_analysis: pc, arguments, loop indices r (ratio), k (strength)
    sync_values,    \* its list sync_values
    results,        \* its dict results, keyed by the ratio <<p, q>>
    base,           \* the coupling matrix and generator state when the call started (history)
    last,           \* the latest loop iteration: its cell, the matrix it simulated with, the wrapped
                    \* difference, the window scored and the score (history)
    params,         \* TTST.params of the object find_arnold_tongues is called on
    scan,           \* find_arnold_tongues: pc, the two period axes, loop indices i, j
    sync_map,       \* its array sync_map; each entry is held as its square
    returned,       \* the map the caller has received (<<>>: none)
    written,        \* the writes into sync_map so far, in order (history)
    series,         \* the TTST object's time, thermal, tidal, solar, combined_rhythm
    sr              \* the StochasticResonance object: signal_freq, noise_level (<<>>: none)

sysvars == <<n_oscillators, frequencies, freq_dtype, amplitudes, coupling, constructed>>

derivvars == <<call, again>>

sweepvars == <<ata, sync_values, results, base, last>>

scanvars == <<params, scan, sync_map, returned, written, series>>

\* an attribute holding None, and one holding the array v
Unset == [set |-> FALSE, v |-> <<>>]

SetTo(v) == [set |-> TRUE, v |-> v]

\* TTST.__init__, lines 44-48: the five attributes are None
NoSeries ==
    [time |-> Unset, combined_rhythm |-> Unset, thermal |-> Unset,
     tidal |-> Unset, solar |-> Unset]

\* TTST not constructed
NoScan ==
    /\ params = <<>>
    /\ scan = [pc |-> "idle"]
    /\ sync_map = <<>>
    /\ returned = <<>>
    /\ written = <<>>
    /\ series = NoSeries

vars == <<sysvars, derivvars, rng, sweepvars, scanvars, sr>>

NoCall == [op |-> "none"]

-----------------------------------------------------------------------------
(* CoupledOscillator: the derivative laws *)

\* an assignment into an element of an array of the given dtype
Store(dtype, v) == IF dtype = "int64" THEN Trunc(v) ELSE v

KuramotoTermNoGuard(K, phases, i, j) ==
    NMul(K[i][j], Sin(NSub(phases[j], phases[i])))

\* one pass of the inner loop of kuramoto_model
KuramotoTerm(K, phases, i, j) ==
    IF i # j THEN NMul(K[i][j], Sin(NSub(phases[j], phases[i]))) ELSE Zero

KuramotoCouplingTerm(n, K, phases, i) ==
    NSum([j \in 1..n |-> KuramotoTerm(K, phases, i, j)], 1..n)

kuramoto_model_overwrite(n, freqs, dtype, K, phases) ==
    [ret |-> [i \in 1..n |-> Store(dtype, KuramotoCouplingTerm(n, K, phases, i))],
     frequencies |-> freqs,
     phases |-> phases]

kuramoto_model_alias(n, freqs, dtype, K, phases) ==
    LET d == [i \in 1..n |->
                 Store(dtype, NAdd(freqs[i], KuramotoCouplingTerm(n, K, phases, i)))]
    IN  [ret |-> d, frequencies |-> d, phases |-> phases]

\* kuramoto_model: the returned derivative, and self.frequencies and the caller's
\* phase array as the call leaves them (dphases is a copy, phases is only read)
kuramoto_model(n, freqs, dtype, K, phases) ==
    [ret |-> [i \in 1..n |->
                 Store(dtype, NAdd(freqs[i], KuramotoCouplingTerm(n, K, phases, i)))],
     frequencies |-> freqs,
     phases |-> phases]

NSq(a) == NMul(a, a)

VdpTermNoGuard(K, x, i, j) == NMul(K[i][j], NSub(x[j], x[i]))

\* one pass of the inner loop of van_der_pol_coupled
VdpTerm(K, x, i, j) ==
    IF i # j THEN NMul(K[i][j], NSub(x[j], x[i])) ELSE Zero

van_der_pol_coupled_swapped(n, freqs, K, state, mu) ==
    LET x  == [i \in 1..n |-> state[2 * i - 1]]
        v  == [i \in 1..n |-> state[2 * i]]
        dx == v
        dv == [i \in 1..n |->
                  NAdd(NSub(NMul(NMul(mu, NSub(One, NSq(x[i]))), v[i]),
                            NMul(NSq(freqs[i]), x[i])),
                       NSum([j \in 1..n |-> VdpTerm(K, x, i, j)], 1..n))]
    IN  [ret |-> [k \in 1..(2 * n) |->
                     IF k % 2 = 1 THEN dv[(k + 1) \div 2] ELSE dx[k \div 2]],
         state |-> state]

\* van_der_pol_coupled on the interleaved state [x1, v1, x2, v2, ...]
van_der_pol_coupled(n, freqs, K, state, mu) ==
    LET x  == [i \in 1..n |-> state[2 * i - 1]]
        v  == [i \in 1..n |-> state[2 * i]]
        dx == v
        dv == [i \in 1..n |->
                  NAdd(NSub(NMul(NMul(mu, NSub(One, NSq(x[i]))), v[i]),
                            NMul(NSq(freqs[i]), x[i])),
                       NSum([j \in 1..n |-> VdpTerm(K, x, i, j)], 1..n))]
    IN  [ret |-> [k \in 1..(2 * n) |->
                     IF k % 2 = 1 THEN dx[(k + 1) \div 2] ELSE dv[k \div 2]],
         state |-> state]

\* np.exp(1j * a): exact at the multiples of a quarter turn, to which a finite
\* angle is taken down; non-finite angles give NaN + NaN j
Exp1j(a) ==
    IF a.d = 0 THEN [re |-> NaN, im |-> NaN]
    ELSE LET r == (a.n \div a.d) % 4
         IN  [re |-> I(IF r = 0 THEN 1 ELSE IF r = 2 THEN -1 ELSE 0),
              im |-> I(IF r = 1 THEN 1 ELSE IF r = 3 THEN -1 ELSE 0)]

\* np.mean of a sequence of values
Mean(xs) == NDiv(NSum(xs, DOMAIN xs), I(Len(xs)))

calculate_order_parameter_axis0(phases) ==
    [i \in DOMAIN phases[1] |->
        LET e == [t \in DOMAIN phases |-> Exp1j(phases[t][i])]
        IN  NAdd(NSq(Mean([t \in DOMAIN e |-> e[t].re])),
                 NSq(Mean([t \in DOMAIN e |-> e[t].im])))]

\* calculate_order_parameter on a trajectory phases[t][i]: for each time step the
\* modulus of the mean over the oscillators (axis 1), held as its square
calculate_order_parameter(phases) ==
    [t \in DOMAIN phases |->
        LET e == [i \in DOMAIN phases[t] |-> Exp1j(phases[t][i])]
        IN  NAdd(NSq(Mean([i \in DOMAIN e |-> e[i].re])),
                 NSq(Mean([i \in DOMAIN e |-> e[i].im])))]

-----------------------------------------------------------------------------
(* Inputs of the derivative calls *)

Half == Q(1, 2)

\* coupling matrices: a diagonal value, an upper and a lower off-diagonal value
DiagValues == {Zero, One, NaN}

OffDiagPairs == {<<Zero, Zero>>, <<Half, Q(3, 10)>>, <<Q(-3, 10), Half>>}

Matrix(n, dg, up, lo) ==
    [i \in 1..n |-> [j \in 1..n |-> IF i = j THEN dg ELSE IF i < j THEN up ELSE lo]]

\* np.array(frequencies): Python ints give an int64 array, floats a float64 array
FrequencyLists(n) ==
    { [dtype |-> "int64", v |-> [i \in 1..n |-> I(i)]],
      [dtype |-> "float64", v |-> [i \in 1..n |-> Q(i, 2)]],
      [dtype |-> "float64", v |-> [i \in 1..n |-> I(2)]] }

PhaseVectors(n) == [1..n -> {Zero, One, I(3)}]

VdpStates(n) ==
    { [k \in 1..(2 * n) |-> IF k % 2 = 1 THEN I(a * ((k + 1) \div 2) - 2) ELSE I(b)] :
        a \in {0, 1, 2}, b \in {0, 1} }

MuValues == {One, I(2)}

\* rows of a phase trajectory: phase a + b*(i - 1) for oscillator i, in quarter turns
PhaseRows(n) == { [i \in 1..n |-> I(a + b * (i - 1))] : a \in {0, 1}, b \in {0, 1, 2} }

RECURSIVE Trajectories(_, _)
Trajectories(rows, len) ==
    IF len = 0 THEN { <<>> }
    ELSE { Append(tr, r) : tr \in Trajectories(rows, len - 1), r \in rows }

\* phase trajectories of 1..MaxRows time steps
PhaseTrajectories(n) ==
    UNION { Trajectories(PhaseRows(n), len) : len \in 1..MaxRows }

-----------------------------------------------------------------------------
(* CoupledOscillator under its derivative calls *)

\* CoupledOscillator.__init__ with an explicit coupling matrix
InitDeriv ==
    /\ n_oscillators \in 1..MaxN
    /\ \E f \in FrequencyLists(n_oscillators) :
          /\ frequencies = f.v
          /\ freq_dtype = f.dtype
    /\ amplitudes = [i \in 1..n_oscillators |-> One]
    /\ \E dg \in DiagValues, p \in OffDiagPairs :
          coupling = Matrix(n_oscillators, dg, p[1], p[2])
    /\ constructed = [frequencies |-> frequencies, coupling |-> coupling]
    /\ call = NoCall
    /\ again = <<>>
    /\ sr = <<>>
    /\ rng = 0
    /\ ata = [pc |-> "idle"]
    /\ sync_values = <<>>
    /\ results = <<>>
    /\ base = [coupling |-> coupling, rng |-> rng]
    /\ last = [r |-> 0]
    /\ NoScan

KuramotoCall ==
    \E ph \in PhaseVectors(n_oscillators) :
        LET r == kuramoto_model(n_oscillators, frequencies, freq_dtype, coupling, ph)
        IN  /\ frequencies' = r.frequencies
            /\ call' = [op |-> "kuramoto_model", arg |-> ph,
                        arg_after |-> r.phases, ret |-> r.ret]
            /\ again' = <<>>
            /\ UNCHANGED <<sr, n_oscillators, freq_dtype, amplitudes, coupling, constructed,
                           rng, sweepvars, scanvars>>

\* the caller (the integrator) calls kuramoto_model once more at the same phases
KuramotoAgain ==
    /\ call.op = "kuramoto_model"
    /\ again = <<>>
    /\ LET r == kuramoto_model(n_oscillators, frequencies, freq_dtype, coupling,
                               call.arg_after)
       IN  /\ frequencies' = r.frequencies
           /\ again' = r.ret
           /\ call' = [call EXCEPT !.arg_after = r.phases]
           /\ UNCHANGED <<sr, n_oscillators, freq_dtype, amplitudes, coupling, constructed,
                          rng, sweepvars, scanvars>>

VanDerPolCall ==
    \E st \in VdpStates(n_oscillators), mu \in MuValues :
        LET r == van_der_pol_coupled(n_oscillators, frequencies, coupling, st, mu)
        IN  /\ call' = [op |-> "van_der_pol_coupled", arg |-> st, mu |-> mu,
                        arg_after |-> r.state, ret |-> r.ret]
            /\ again' = <<>>
            /\ UNCHANGED <<sr, sysvars, rng, sweepvars, scanvars>>

NextDeriv == KuramotoCall \/ KuramotoAgain \/ VanDerPolCall

SpecDeriv == InitDeriv /\ [][NextDeriv]_vars

-----------------------------------------------------------------------------
(* CoupledOscillator under calls of calculate_order_parameter *)

\* CoupledOscillator.__init__ without a coupling matrix: lines 35-38
InitOrder ==
    /\ n_oscillators \in 1..MaxN
    /\ \E f \in FrequencyLists(n_oscillators) :
          /\ frequencies = f.v
          /\ freq_dtype = f.dtype
    /\ amplitudes = [i \in 1..n_oscillators |-> One]
    /\ coupling = [i \in 1..n_oscillators |->
                      [j \in 1..n_oscillators |-> IF i = j THEN Zero ELSE Q(1, 10)]]
    /\ constructed = [frequencies |-> frequencies, coupling |-> coupling]
    /\ call = NoCall
    /\ again = <<>>
    /\ sr = <<>>
    /\ rng = 0
    /\ ata = [pc |-> "idle"]
    /\ sync_values = <<>>
    /\ results = <<>>
    /\ base = [coupling |-> coupling, rng |-> rng]
    /\ last = [r |-> 0]
    /\ NoScan

OrderParameterCall ==
    \E ph \in PhaseTrajectories(n_oscillators) :
        /\ call' = [op |-> "calculate_order_parameter", arg |-> ph,
                    arg_after |-> ph, ret |-> calculate_order_parameter(ph)]
        /\ again' = <<>>
        /\ UNCHANGED <<sr, sysvars, rng, sweepvars, scanvars>>

NextOrder == OrderParameterCall

SpecOrder == InitOrder /\ [][NextOrder]_vars

-----------------------------------------------------------------------------
(* CoupledOscillator from its construction on *)

\* no CoupledOscillator yet
np_array_view(obj) == [value |-> obj, shares |-> TRUE]

\* np.array(obj): a new array holding the values of obj; it shares no memory
\* with obj, so a later write into one is not seen through the other
np_array(obj) == [value |-> obj, shares |-> FALSE]

InitConstruct ==
    /\ n_oscillators = 0
    /\ frequencies = <<>>
    /\ freq_dtype = "float64"
    /\ amplitudes = <<>>
    /\ coupling = <<>>
    /\ constructed = [done |-> FALSE]
    /\ call = NoCall
    /\ again = <<>>
    /\ sr = <<>>
    /\ rng = 0
    /\ ata = [pc |-> "idle"]
    /\ sync_values = <<>>
    /\ results = <<>>
    /\ base = [coupling |-> coupling, rng |-> rng]
    /\ last = [r |-> 0]
    /\ NoScan

\* lines 37-38: 0.1 * (ones - eye)
DefaultCoupling(n) ==
    [i \in 1..n |-> [j \in 1..n |-> IF i = j THEN Zero ELSE Q(1, 10)]]

\* a nested list of r rows of c values
RectMatrix(r, c) ==
    [i \in 1..r |-> [j \in 1..c |-> IF i = j THEN Zero ELSE Half]]

\* the argument coupling_matrix: None, or a nested list of any shape
CouplingArguments ==
    { [given |-> FALSE] } \cup
    { [given |-> TRUE, matrix |-> RectMatrix(r, c)] : r \in 0..MaxN, c \in 0..MaxN }

\* CoupledOscillator.__init__(frequencies, amplitudes, coupling_matrix), lines 31-40
Construct ==
    /\ ~constructed.done
    /\ \E nf \in 0..MaxN, na \in 0..MaxN, cm \in CouplingArguments :
          /\ n_oscillators' = nf
          /\ frequencies' = [i \in 1..nf |-> Q(i, 2)]
          /\ freq_dtype' = "float64"
          /\ amplitudes' = [i \in 1..na |-> One]
          /\ coupling' = IF cm.given THEN np_array(cm.matrix).value
                          ELSE DefaultCoupling(nf)
          /\ constructed' = [done |-> TRUE, class |-> "CoupledOscillator",
                             frequencies |-> frequencies',
                             coupling |-> coupling', argument |-> cm,
                             shares |-> cm.given /\ np_array(cm.matrix).shares,
                             passed |-> IF cm.given THEN cm.matrix ELSE <<>>]
    /\ UNCHANGED <<sr, derivvars, rng, sweepvars, scanvars>>

\* self.coupling[i, j] is inside the array
InShape(K, i, j) == i \in DOMAIN K /\ j \in DOMAIN K[i]

\* kuramoto_model on the object as constructed: an index outside self.coupling
\* raises IndexError at the first read of it
KuramotoCallOnConstructed ==
    /\ constructed.done
    /\ \E a \in {0, 1} :
          LET ph == [i \in 1..n_oscillators |-> I(a * i)]
              reads == { ij \in (1..n_oscillators) \X (1..n_oscillators) : ij[1] # ij[2] }
          IN  call' = IF \A ij \in reads : InShape(coupling, ij[1], ij[2])
                      THEN [op |-> "kuramoto_model", arg |-> ph, outcome |-> "returned",
                            arg_after |-> ph,
                            ret |-> kuramoto_model(n_oscillators, frequencies,
                                                   freq_dtype, coupling, ph).ret]
                      ELSE [op |-> "kuramoto_model", arg |-> ph,
                            outcome |-> "IndexError"]
    /\ again' = <<>>
    /\ UNCHANGED <<sr, sysvars, rng, sweepvars, scanvars>>

NextConstruct == Construct \/ KuramotoCallOnConstructed

SpecConstruct == InitConstruct /\ [][NextConstruct]_vars

-----------------------------------------------------------------------------
(* numpy's global random generator *)

\* the generator's next state (a full-period congruential generator stands for MT19937)
RngNext(s) == (5 * s + 3) % 8

RngStates == 0..7

RECURSIVE RngAdvance(_, _)
RngAdvance(s, k) == IF k = 0 THEN s ELSE RngAdvance(RngNext(s), k - 1)

\* the sample of [0, 1) that np.random.random returns from state s
Uniform(s) == Q(s % 4, 4)

\* np.random.random(n): n samples, the generator advanced n times
RandomVector(s, n) == [i \in 1..n |-> Uniform(RngAdvance(s, i - 1))]

-----------------------------------------------------------------------------
(* CoupledOscillator.simulate_kuramoto *)

\* the integrator's output, kept to 1/PhaseRes of a quarter turn
Snap(a) == IF a.d = 0 THEN a ELSE Q((a.n * PhaseRes) \div a.d, PhaseRes)

\* odeint(self.kuramoto_model, y, t) on a grid of k points of step dt: one row per
\* grid point, the first being y; each step calls kuramoto_model at the row it leaves
RECURSIVE Odeint(_, _, _, _, _, _, _)
Odeint(n, freqs, dtype, K, y, dt, k) ==
    IF k = 0 THEN <<>>
    ELSE LET d  == kuramoto_model(n, freqs, dtype, K, y).ret
             y2 == [i \in 1..n |-> Snap(NAdd(y[i], NMul(dt, d[i])))]
         IN  <<y>> \o Odeint(n, freqs, dtype, K, y2, dt, k - 1)

simulate_kuramoto_always_draws(n, freqs, dtype, K, samples, dt, initial_phases, s) ==
    LET y0 == IF initial_phases = <<>>
              THEN [i \in 1..n |-> NMul(I(4), RandomVector(s, n)[i])]
              ELSE initial_phases
    IN  [phases |-> Odeint(n, freqs, dtype, K, y0, dt, samples),
         initial_phases |-> y0,
         rng |-> RngAdvance(s, n)]

\* simulate_kuramoto on a grid of `samples` points; initial_phases = <<>> is None.
\* Returns the phase trajectory, the initial phases it started from and the
\* generator state the call leaves.
simulate_kuramoto(n, freqs, dtype, K, samples, dt, initial_phases, s) ==
    LET drawn == initial_phases = <<>>
        y0    == IF drawn
                 THEN [i \in 1..n |-> NMul(I(4), RandomVector(s, n)[i])]
                 ELSE initial_phases
    IN  [phases |-> Odeint(n, freqs, dtype, K, y0, dt, samples),
         initial_phases |-> y0,
         rng |-> IF drawn THEN RngAdvance(s, n) ELSE s]

-----------------------------------------------------------------------------
(* TTSTCoupledSystem *)

\* 2*pi/0.5, 2*pi/12.4 and 2*pi/24.0 rad/hour, in quarter turns per hour
TTSTFrequencies == <<I(8), Q(10, 31), Q(1, 6)>>

TTSTCoupling ==
    << <<Zero, Q(3, 10), Q(2, 10)>>,
       <<Q(3, 10), Zero, Q(5, 10)>>,
       <<Q(2, 10), Q(5, 10), Zero>> >>

\* np.linspace(lo, hi, n)
Linspace(lo, hi, n) ==
    [k \in 1..n |->
        IF n = 1 THEN lo
        ELSE NAdd(lo, NMul(I(k - 1), NDiv(NSub(hi, lo), I(n - 1))))]

\* np.max(self.coupling)
MatrixMax(K) ==
    NMax([ij \in (DOMAIN K) \X (DOMAIN K) |-> K[ij[1]][ij[2]]])

\* a matrix times a scalar
Scaled(K, factor) ==
    [i \in DOMAIN K |-> [j \in DOMAIN K[i] |-> NMul(K[i][j], factor)]]

RescaleUnnormalised(K, strength) == Scaled(K, strength)

\* self.coupling *= coupling_strength / np.max(self.coupling)
Rescale(K, strength) == Scaled(K, NDiv(strength, MatrixMax(K)))

\* the window of the ratio-lock score
Window == 1000

LastSamples(xs, w) ==
    IF Len(xs) <= w THEN xs ELSE SubSeq(xs, Len(xs) - w + 1, Len(xs))

\* np.var: the mean squared deviation from the mean
Var(xs) ==
    LET m == Mean(xs)
    IN  Mean([k \in DOMAIN xs |-> NSq(NSub(xs[k], m))])

\* lines 217-218: phase_diff_wrapped, the wrapped difference p*th_0 - q*th_1
PhaseDiffWrapped(p, q, phases) ==
    [k \in DOMAIN phases |->
        Mod2Pi(NSub(NMul(I(p), phases[k][1]), NMul(I(q), phases[k][2])))]

SyncMeasureUncentred(p, q, phases) ==
    LET w == LastSamples(PhaseDiffWrapped(p, q, phases), Window)
    IN  NDiv(One, NAdd(One, Mean([k \in DOMAIN w |-> NSq(w[k])])))

\* lines 217-221: the p:q ratio-lock score of a trajectory
SyncMeasure(p, q, phases) ==
    NDiv(One, NAdd(One, Var(LastSamples(PhaseDiffWrapped(p, q, phases), Window))))

biological_feedback_scalar(n, freqs, amps, K, state, feedback_strength) ==
    LET base_dynamics == van_der_pol_coupled(n, freqs, K, state, One).ret
        x        == [i \in 1..n |-> state[2 * i - 1]]
        combined == NSum([i \in 1..n |-> NMul(amps[i], x[i])], 1..n)
        feedback == [k \in 1..(2 * n) |->
                        IF k % 2 = 0 THEN NMul(feedback_strength, combined) ELSE Zero]
    IN  [ret |-> [k \in 1..(2 * n) |-> NAdd(base_dynamics[k], feedback[k])],
         state |-> state]

\* biological_feedback: van_der_pol_coupled with the default mu = 1.0, plus the
\* feedback array, which is zero at the places of the positions
biological_feedback(n, freqs, amps, K, state, feedback_strength) ==
    LET base_dynamics == van_der_pol_coupled(n, freqs, K, state, One).ret
        x        == [i \in 1..n |-> state[2 * i - 1]]
        combined == NSum([i \in 1..n |-> NMul(amps[i], x[i])], 1..n)
        feedback == [k \in 1..(2 * n) |->
                        IF k % 2 = 0
                        THEN NMul(NMul(feedback_strength, combined), x[k \div 2])
                        ELSE Zero]
    IN  [ret |-> [k \in 1..(2 * n) |-> NAdd(base_dynamics[k], feedback[k])],
         state |-> state]

\* the arguments of arnold_tongue_analysis
RatioLists ==
    { << <<1, 1>> >>, << <<1, 1>>, <<2, 1>> >>, << <<1, 2>>, <<1, 1>> >> }

CouplingRanges == { <<Zero, One>>, <<Half, One>>, <<One, I(2)>> }

SweepDt == Q(1, 10)

\* TTSTCoupledSystem.__init__, with the global generator in any state
\* what TTSTCoupledSystem.__init__ leaves: line 161 passes the array of lines
\* 155-159 to CoupledOscillator.__init__, which stores np.array of it (line 40)
TTSTConstructed ==
    [done |-> TRUE, class |-> "TTSTCoupledSystem",
     frequencies |-> TTSTFrequencies,
     coupling |-> np_array(TTSTCoupling).value,
     argument |-> [given |-> TRUE, matrix |-> TTSTCoupling],
     shares |-> np_array(TTSTCoupling).shares,
     passed |-> TTSTCoupling]

InitSweep ==
    /\ n_oscillators = 3
    /\ frequencies = TTSTFrequencies
    /\ freq_dtype = "float64"
    /\ amplitudes = <<One, One, One>>
    /\ coupling = TTSTConstructed.coupling
    /\ constructed = TTSTConstructed
    /\ call = NoCall
    /\ again = <<>>
    /\ sr = <<>>
    /\ rng \in RngStates
    /\ ata = [pc |-> "idle"]
    /\ sync_values = <<>>
    /\ results = <<>>
    /\ base = [coupling |-> coupling, rng |-> rng]
    /\ last = [r |-> 0]
    /\ NoScan

\* arnold_tongue_analysis is called: lines 203-204
ArnoldStart ==
    /\ ata.pc \in {"idle", "returned"}
    /\ \E ratios \in RatioLists, range \in CouplingRanges, n_points \in 1..MaxPoints :
          ata' = [pc |-> "loop", freq_ratios |-> ratios,
                  coupling_strengths |-> Linspace(range[1], range[2], n_points),
                  r |-> 1, k |-> 1]
    /\ sync_values' = <<>>
    /\ results' = <<>>
    /\ base' = [coupling |-> coupling, rng |-> rng]
    /\ last' = [r |-> 0]
    /\ UNCHANGED <<sr, sysvars, derivvars, rng, scanvars>>

\* one pass of the inner loop, lines 209-222; after the last strength of a ratio
\* also lines 224-227 and the outer loop's step to the next ratio
ArnoldIteration ==
    /\ ata.pc = "loop"
    /\ ata.r <= Len(ata.freq_ratios)
    /\ LET p     == ata.freq_ratios[ata.r][1]
           q     == ata.freq_ratios[ata.r][2]
           s     == ata.coupling_strengths[ata.k]
           K     == Rescale(coupling, s)
           sim   == simulate_kuramoto(n_oscillators, frequencies, freq_dtype, K,
                                      SweepSamples, SweepDt, <<>>, rng)
           sync  == SyncMeasure(p, q, sim.phases)
           vals  == Append(sync_values, sync)
           done  == ata.k = Len(ata.coupling_strengths)
       IN  /\ coupling' = K
           /\ constructed' = [constructed EXCEPT
                                 !.passed = IF constructed.shares THEN K ELSE @]
           /\ rng' = sim.rng
           /\ last' = [r |-> ata.r, k |-> ata.k, p |-> p, q |-> q, strength |-> s,
                       matrix |-> K, sync |-> sync,
                       wrapped |-> PhaseDiffWrapped(p, q, sim.phases),
                       window |-> LastSamples(PhaseDiffWrapped(p, q, sim.phases),
                                              Window)]
           /\ sync_values' = IF done THEN <<>> ELSE vals
           /\ results' = IF done
                         THEN [key \in DOMAIN results \cup {<<p, q>>} |->
                                  IF key = <<p, q>> THEN vals ELSE results[key]]
                         ELSE results
           /\ ata' = IF done THEN [ata EXCEPT !.r = @ + 1, !.k = 1]
                     ELSE [ata EXCEPT !.k = @ + 1]
    /\ UNCHANGED <<sr, n_oscillators, frequencies, freq_dtype, amplitudes,
                   derivvars, base, scanvars>>

\* line 229
ArnoldReturn ==
    /\ ata.pc = "loop"
    /\ ata.r > Len(ata.freq_ratios)
    /\ ata' = [ata EXCEPT !.pc = "returned"]
    /\ UNCHANGED <<sr, sysvars, derivvars, rng, sync_values, results, base, last, scanvars>>

NextSweep == ArnoldStart \/ ArnoldIteration \/ ArnoldReturn

SpecSweep == InitSweep /\ [][NextSweep]_vars

-----------------------------------------------------------------------------
(* TTSTCoupledSystem under calls of biological_feedback and of the ratio-lock
   score (lines 217-221) on a given trajectory *)

\* interleaved states: position a + d*(i - 1) for oscillator i, one velocity for all
FeedbackStates(n) ==
    { [k \in 1..(2 * n) |->
          IF k % 2 = 1 THEN I(a + d * (((k + 1) \div 2) - 1)) ELSE I(b)] :
        a \in {-1, 0, 2}, d \in {-1, 0, 1}, b \in {0, 1} }

\* 0.1 is the default feedback_strength
FeedbackStrengths == {Q(1, 10), One, I(-2)}

BiologicalFeedbackCall ==
    \E st \in FeedbackStates(n_oscillators), fs \in FeedbackStrengths :
        LET r == biological_feedback(n_oscillators, frequencies, amplitudes, coupling,
                                     st, fs)
        IN  /\ call' = [op |-> "biological_feedback", arg |-> st,
                        feedback_strength |-> fs, arg_after |-> r.state, ret |-> r.ret]
            /\ again' = <<>>
            /\ UNCHANGED <<sr, sysvars, rng, sweepvars, scanvars>>

\* rows of a trajectory of the three phases; only the first two enter the score
LockRows == { <<Zero, Zero, Zero>>, <<Half, Zero, Zero>>, <<I(3), One, Zero>>,
              <<I(5), Zero, Zero>> }

LockTrajectories == UNION { Trajectories(LockRows, len) : len \in 1..MaxRows }

LockRatios == { <<1, 1>>, <<2, 1>>, <<1, 2>> }

\* lines 217-221 applied to a trajectory
RatioLockCall ==
    \E ph \in LockTrajectories, pq \in LockRatios :
        /\ call' = [op |-> "ratio_lock_score", arg |-> ph, p |-> pq[1], q |-> pq[2],
                    window |-> LastSamples(PhaseDiffWrapped(pq[1], pq[2], ph), Window),
                    ret |-> SyncMeasure(pq[1], pq[2], ph)]
        /\ again' = <<>>
        /\ UNCHANGED <<sr, sysvars, rng, sweepvars, scanvars>>

NextCalls == BiologicalFeedbackCall \/ RatioLockCall

\* TTSTCoupledSystem.__init__; nothing called here draws from the generator
InitCalls == InitSweep /\ rng = 0

SpecCalls == InitCalls /\ [][NextCalls]_vars

-----------------------------------------------------------------------------
(* A system from its construction on: either class, then its operations *)

\* TTSTCoupledSystem(), lines 141-161
ConstructTTST ==
    /\ ~constructed.done
    /\ n_oscillators' = 3
    /\ frequencies' = TTSTFrequencies
    /\ freq_dtype' = "float64"
    /\ amplitudes' = <<One, One, One>>
    /\ coupling' = TTSTConstructed.coupling
    /\ constructed' = TTSTConstructed
    /\ UNCHANGED <<sr, derivvars, rng, sweepvars, scanvars>>

\* arnold_tongue_analysis is a method of TTSTCoupledSystem only
SweepOnConstructed ==
    /\ constructed.done
    /\ constructed.class = "TTSTCoupledSystem"
    /\ ArnoldStart \/ ArnoldIteration \/ ArnoldReturn

\* the derivative law called on a plain CoupledOscillator
KuramotoOnPlain ==
    /\ constructed.done
    /\ constructed.class = "CoupledOscillator"
    /\ KuramotoCallOnConstructed

NextOwn == Construct \/ ConstructTTST \/ KuramotoOnPlain \/ SweepOnConstructed

SpecOwn == InitConstruct /\ [][NextOwn]_vars

-----------------------------------------------------------------------------
(* TTST: the rhythms, the synchronization index and the Arnold-tongue scan *)

\* TTSTParameters(thermal_period, tidal_period, solar_period), the rest defaulted
TTSTParameters(thermal_period, tidal_period, solar_period) ==
    [thermal_period |-> thermal_period, tidal_period |-> tidal_period,
     solar_period |-> solar_period,
     thermal_amplitude |-> One, tidal_amplitude |-> One, solar_amplitude |-> One,
     coupling_strength |-> Q(3, 10), noise_level |-> Q(1, 10)]

\* the sample np.random.randn returns from state s
Normal(s) == I((s % 3) - 1)

\* the number of points of the scan's time grid, np.arange(0, duration, dt); the
\* code's grid has 5000 points, the model's the 4 on which the discrete Fourier
\* transform behind scipy.signal.hilbert is exact over the rationals
ScanSamples == 4

ScanDt == Q(1, 100)

\* np.arange(0, duration, dt)
TimeGrid(samples, dt) == [k \in 1..samples |-> NMul(I(k - 1), dt)]

\* 2*pi*t/period, in quarter turns
Cycle(t, period) == NDiv(NMul(I(4), t), period)

\* TTST.thermal_rhythm: the signal, and the generator state it leaves
thermal_rhythm(pr, t, s) ==
    [v |-> [k \in DOMAIN t |->
               NAdd(NAdd(NMul(pr.thermal_amplitude, Sin(Cycle(t[k], pr.thermal_period))),
                         NMul(Q(3, 10),
                              Sin(NAdd(NMul(I(2), Cycle(t[k], pr.thermal_period)), Half)))),
                    NMul(pr.noise_level, Normal(RngAdvance(s, k - 1))))],
     rng |-> RngAdvance(s, Len(t))]

\* TTST.tidal_rhythm
tidal_rhythm(pr, t) ==
    [k \in DOMAIN t |->
        NAdd(NMul(pr.tidal_amplitude, Sin(Cycle(t[k], pr.tidal_period))),
             NMul(Q(2, 10), NSq(Sin(Cycle(t[k], pr.tidal_period)))))]

\* scipy.signal.hilbert on 4 points (ScanSamples): the analytic signal
\* x[k] + i*(x[k-1] - x[k+1])/2, indices taken cyclically; on 1 or 2 points
\* the analytic signal is x itself
Hilbert(x) ==
    [k \in DOMAIN x |->
        [re |-> x[k],
         im |-> IF Len(x) <= 2 THEN Zero
                ELSE NDiv(NSub(x[((k + 2) % 4) + 1], x[(k % 4) + 1]), I(2))]]

NAbs(a) == IF a.n < 0 THEN NNeg(a) ELSE a

\* np.angle, to the nearest quarter turn (np.angle(0) = 0)
Angle(z) ==
    IF NLe(NAbs(z.im), NAbs(z.re))
    THEN (IF NLt(z.re, Zero) THEN 2 ELSE 0)
    ELSE (IF NLt(Zero, z.im) THEN 1 ELSE -1)

\* np.exp(1j * d) for d quarter turns
ExpI(d) ==
    LET r == d % 4
    IN  [re |-> I(IF r = 0 THEN 1 ELSE IF r = 2 THEN -1 ELSE 0),
         im |-> I(IF r = 1 THEN 1 ELSE IF r = 3 THEN -1 ELSE 0)]

SyncIndexSum(thermal, tidal) ==
    LET e  == [k \in DOMAIN thermal |->
                  ExpI(Angle(Hilbert(thermal)[k]) - Angle(Hilbert(tidal)[k]))]
        re == NSum([k \in DOMAIN e |-> e[k].re], DOMAIN e)
        im == NSum([k \in DOMAIN e |-> e[k].im], DOMAIN e)
    IN  NAdd(NSq(re), NSq(im))

\* lines 186-193: np.abs(np.mean(np.exp(1j * phase_diff))), as its square
SyncIndex(thermal, tidal) ==
    LET e  == [k \in DOMAIN thermal |->
                  ExpI(Angle(Hilbert(thermal)[k]) - Angle(Hilbert(tidal)[k]))]
        re == Mean([k \in DOMAIN e |-> e[k].re])
        im == Mean([k \in DOMAIN e |-> e[k].im])
    IN  NAdd(NSq(re), NSq(im))

CellSyncCarryingParams(t_thermal, t_tidal, solar_period, s) ==
    LET temp_params == [params EXCEPT !.thermal_period = t_thermal,
                                      !.tidal_period = t_tidal,
                                      !.solar_period = solar_period]
        time        == TimeGrid(ScanSamples, ScanDt)
        th          == thermal_rhythm(temp_params, time, s)
    IN  [sync |-> SyncIndex(th.v, tidal_rhythm(temp_params, time)), rng |-> th.rng]

\* lines 219-230: TTST(temp_params), simulate(duration=50, dt=0.01) and
\* calculate_synchronization on the temporary object; the generator state left
CellSync(t_thermal, t_tidal, solar_period, s) ==
    LET temp_params == TTSTParameters(t_thermal, t_tidal, solar_period)
        time        == TimeGrid(ScanSamples, ScanDt)
        th          == thermal_rhythm(temp_params, time, s)
    IN  [sync |-> SyncIndex(th.v, tidal_rhythm(temp_params, time)), rng |-> th.rng]

NextCellColumnMajor(i, j, resolution) ==
    IF i < resolution THEN <<i + 1, j>> ELSE <<1, j + 1>>

\* the nested loops of lines 216-217: the cell after (i, j)
NextCell(i, j, resolution) ==
    IF j < resolution THEN <<i, j + 1>> ELSE <<i + 1, 1>>

\* the loops are over: one of the two indices has left the grid
ScanOver(i, j, resolution) == i > resolution \/ j > resolution

\* the arguments of find_arnold_tongues
ThermalRanges == { <<Q(1, 25), Q(2, 25)>>, <<Q(1, 25), Q(1, 25)>>, <<Q(1, 4), I(2)>> }

TidalRanges == { <<Q(1, 25), Q(3, 25)>>, <<Q(2, 25), Q(2, 25)>>, <<I(10), I(15)>> }

\* TTST.__init__ with default parameters, the global generator in any state
InitScan ==
    /\ n_oscillators = 0
    /\ frequencies = <<>>
    /\ freq_dtype = "float64"
    /\ amplitudes = <<>>
    /\ coupling = <<>>
    /\ constructed = [frequencies |-> frequencies, coupling |-> coupling]
    /\ call = NoCall
    /\ again = <<>>
    /\ sr = <<>>
    /\ rng \in RngStates
    /\ ata = [pc |-> "idle"]
    /\ sync_values = <<>>
    /\ results = <<>>
    /\ base = [coupling |-> coupling, rng |-> rng]
    /\ last = [r |-> 0]
    /\ params = TTSTParameters(Half, Q(62, 5), I(24))
    /\ scan = [pc |-> "idle"]
    /\ sync_map = <<>>
    /\ returned = <<>>
    /\ written = <<>>
    /\ series = NoSeries

\* find_arnold_tongues is called: lines 211-214
ScanStart ==
    /\ scan.pc \in {"idle", "returned"}
    /\ \E thermal_range \in ThermalRanges, tidal_range \in TidalRanges,
          resolution \in 1..MaxResolution :
          /\ scan' = [pc |-> "loop", resolution |-> resolution,
                      thermal_periods |->
                          Linspace(thermal_range[1], thermal_range[2], resolution),
                      tidal_periods |->
                          Linspace(tidal_range[1], tidal_range[2], resolution),
                      i |-> 1, j |-> 1, rng0 |-> rng,
                      params0 |-> params, series0 |-> series]
          /\ sync_map' = [i \in 1..resolution |-> [j \in 1..resolution |-> Zero]]
    /\ returned' = <<>>
    /\ written' = <<>>
    /\ UNCHANGED <<sr, sysvars, derivvars, rng, sweepvars, params, series>>

\* one pass of the inner loop, lines 218-230, and the step to the next cell
ScanCell ==
    /\ scan.pc = "loop"
    /\ ~ScanOver(scan.i, scan.j, scan.resolution)
    /\ LET t_thermal == scan.thermal_periods[scan.i]
           t_tidal   == scan.tidal_periods[scan.j]
           c         == CellSync(t_thermal, t_tidal, params.solar_period, rng)
           nxt       == NextCell(scan.i, scan.j, scan.resolution)
       IN  /\ sync_map' = [sync_map EXCEPT ![scan.i][scan.j] = c.sync]
           /\ rng' = c.rng
           /\ written' = Append(written, [i |-> scan.i, j |-> scan.j,
                                          thermal_period |-> t_thermal,
                                          tidal_period |-> t_tidal,
                                          rng |-> rng, sync |-> c.sync])
           /\ scan' = [scan EXCEPT !.i = nxt[1], !.j = nxt[2]]
    /\ UNCHANGED <<sr, sysvars, derivvars, sweepvars, params, returned, series>>

\* line 232
ScanReturn ==
    /\ scan.pc = "loop"
    /\ ScanOver(scan.i, scan.j, scan.resolution)
    /\ scan' = [scan EXCEPT !.pc = "returned"]
    /\ returned' = sync_map
    /\ UNCHANGED <<sr, sysvars, derivvars, rng, sweepvars, params, sync_map, written, series>>

NextScan == ScanStart \/ ScanCell \/ ScanReturn

SpecScan == InitScan /\ [][NextScan]_vars

-----------------------------------------------------------------------------
(* StochasticResonance *)

NegInf == [n |-> -1, d |-> 0]

\* the largest r with r*r <= k
ISqrt(k) == CHOOSE r \in 0..k : r * r <= k /\ (r + 1) * (r + 1) > k

\* np.sqrt: exact on the squares of rationals, taken down to a multiple of 1/d
\* elsewhere; NaN for a negative argument
NSqrt(a) ==
    IF a.d = 0 THEN (IF a.n > 0 THEN PosInf ELSE NaN)
    ELSE IF a.n < 0 THEN NaN
    ELSE Q(ISqrt(a.n * a.d), a.d)

\* int(x) of a finite float: toward zero
PyInt(a) == Trunc(a).n

\* potential_derivative with a = b = 1.0
potential_derivative(x) == NAdd(NNeg(x), NMul(NMul(x, x), x))

\* the loop of lines 284-286 from index i on (x[1] is the code's x[0])
RECURSIVE EulerMaruyama(_, _, _, _, _)
EulerMaruyama(x, i, signal, noise, dt) ==
    IF i > Len(signal) THEN x
    ELSE LET drift == NAdd(NNeg(potential_derivative(x[i - 1])), signal[i])
         IN  EulerMaruyama(Append(x, NAdd(NAdd(x[i - 1], NMul(drift, dt)), noise[i])),
                           i + 1, signal, noise, dt)

\* StochasticResonance.simulate from generator state s: how the call ends, the
\* three arrays it returns, the noise array, the number of passes of the loop,
\* and the generator state it leaves
StochasticResonance_simulate(self, duration, dt, signal_amplitude, s) ==
    LET failed(e, s1) == [outcome |-> e, t |-> <<>>, x |-> <<>>, signal |-> <<>>,
                          noise |-> <<>>, steps |-> 0, rng |-> s1]
    IN  IF dt = Zero THEN failed("ZeroDivisionError", s)
        ELSE LET n_steps == PyInt(NDiv(duration, dt))
             IN  IF n_steps < 0 THEN failed("ValueError", s)
                 ELSE IF n_steps = 0 THEN failed("IndexError", RngNext(s))
                 ELSE LET t      == Linspace(Zero, duration, n_steps)
                          signal == [k \in 1..n_steps |->
                                        NMul(signal_amplitude,
                                             Sin(NMul(NMul(I(4), self.signal_freq), t[k])))]
                          x0     == Normal(s)
                          scale  == NSqrt(NMul(NMul(I(2), self.noise_level), dt))
                          noise  == [k \in 1..n_steps |->
                                        NMul(scale, Normal(RngAdvance(s, k)))]
                      IN  [outcome |-> "returned", t |-> t,
                           x |-> EulerMaruyama(<<x0>>, 2, signal, noise, dt),
                           signal |-> signal, noise |-> noise,
                           steps |-> n_steps - 1,
                           rng |-> RngAdvance(s, 1 + n_steps)]

RECURSIVE Pow10(_)
Pow10(k) == IF k = 0 THEN One ELSE IF k > 0 THEN NMul(I(10), Pow10(k - 1))
            ELSE NDiv(Pow10(k + 1), I(10))

\* np.log10: -inf at 0, NaN below 0, the integer part of the logarithm of a
\* finite positive value
NLog10(a) ==
    IF IsNaN(a) THEN NaN
    ELSE IF a.n < 0 THEN NaN
    ELSE IF a.d = 0 THEN PosInf
    ELSE IF a.n = 0 THEN NegInf
    ELSE IF NLt(a, Pow10(-LogDigits)) THEN I(-LogDigits)
    ELSE I(CHOOSE k \in (-LogDigits)..LogDigits :
               /\ NLe(Pow10(k), a)
               /\ k < LogDigits => NLt(a, Pow10(k + 1)))

\* np.abs(np.fft.fft(x))**2 for len(x) in {1, 2, 4}, where the transform is rational
FftPower(x) ==
    IF Len(x) = 1 THEN << NSq(x[1]) >>
    ELSE IF Len(x) = 2 THEN << NSq(NAdd(x[1], x[2])), NSq(NSub(x[1], x[2])) >>
    ELSE LET odd == NAdd(NSq(NSub(x[1], x[3])), NSq(NSub(x[2], x[4])))
         IN  << NSq(NAdd(NAdd(x[1], x[2]), NAdd(x[3], x[4]))),
                odd,
                NSq(NAdd(NSub(x[1], x[2]), NSub(x[3], x[4]))),
                odd >>

\* np.fft.fftfreq(n): 0, 1/n, ... then the negative frequencies from -(n // 2)/n
FftFreq(n) ==
    [k \in 1..n |-> IF k - 1 <= (n - 1) \div 2 THEN Q(k - 1, n) ELSE Q(k - 1 - n, n)]

\* np.argmin: the first index of the least value
ArgMin(f) ==
    CHOOSE k \in DOMAIN f :
        /\ \A m \in DOMAIN f : NLe(f[k], f[m])
        /\ \A m \in DOMAIN f : m < k => NLt(f[k], f[m])

\* calculate_snr: the value returned (10 times the logarithm), with the bin
\* taken as signal, the bins averaged as noise and the two powers
calculate_snr(x, signal_freq) ==
    LET power        == FftPower(x)
        freqs        == FftFreq(Len(x))
        dist         == [k \in DOMAIN freqs |-> NAbs(NSub(freqs[k], signal_freq))]
        signal_idx   == ArgMin(dist)
        signal_power == power[signal_idx]
        noise_mask   == { k \in DOMAIN freqs : NLt(Q(1, 100), dist[k]) }
        noise_power  == NDiv(NSum(power, noise_mask), I(Cardinality(noise_mask)))
    IN  [ret |-> NMul(I(10), NLog10(NDiv(signal_power, noise_power))),
         signal_idx |-> signal_idx, noise_mask |-> noise_mask,
         signal_power |-> signal_power, noise_power |-> noise_power]

\* the arguments of calculate_snr
SnrSeries ==
    { [k \in DOMAIN xs |-> I(xs[k])] :
        xs \in { <<1>>, <<0>>, <<1, 1>>, <<1, -1>>, <<1, 2>>,
                 <<1, 1, 1, 1>>, <<0, 0, 0, 0>>, <<1, 0, -1, 0>>, <<1, -1, 1, -1>>,
                 <<1, 2, 0, -1>>, <<2, 0, 0, 0>>, <<3, 1, 0, 1>> } }

SnrFrequencies == { Zero, Q(1, 200), Q(1, 4), Half, One }

\* calculate_snr(x, signal_freq)
CalculateSnrCall ==
    \E x \in SnrSeries, signal_freq \in SnrFrequencies :
        LET r == calculate_snr(x, signal_freq)
        IN  /\ call' = [op |-> "calculate_snr", arg |-> x, signal_freq |-> signal_freq,
                        ret |-> r.ret, signal_idx |-> r.signal_idx,
                        noise_mask |-> r.noise_mask,
                        signal_power |-> r.signal_power,
                        noise_power |-> r.noise_power]
            /\ again' = <<>>
            /\ UNCHANGED <<sr, sysvars, rng, sweepvars, scanvars>>

NextSnr == CalculateSnrCall

-----------------------------------------------------------------------------
(* Simulation calls: CoupledOscillator.simulate_kuramoto and
   StochasticResonance.simulate, sharing numpy's global generator *)

\* the least integer >= a
Ceil(a) == IF a.n % a.d = 0 THEN a.n \div a.d ELSE (a.n \div a.d) + 1

\* len(np.arange(start, stop, dt)) for dt # 0
ArangeLen(start, stop, dt) ==
    LET len == Ceil(NDiv(NSub(stop, start), dt))
    IN  IF len < 0 THEN 0 ELSE len

\* np.arange(start, stop, dt)
Arange(start, stop, dt) ==
    [k \in 1..ArangeLen(start, stop, dt) |-> NAdd(start, NMul(I(k - 1), dt))]

\* what odeint does on an empty time grid is not defined by the code: it
\* returns an empty trajectory, raises, or the process dies
OdeintEmptyOutcomes == {"returned", "IndexError", "crash"}

\* the arguments of simulate_kuramoto
TimeSpans == { <<Zero, Q(3, 2)>>, <<One, One>>, <<One, Zero>> }

TimeSteps == { Half, Zero, NNeg(Half) }

InitialPhases(n) == { <<>>, [i \in 1..n |-> I(i - 1)] }

\* the arguments of StochasticResonance.simulate
Durations == { Q(1, 4), Q(3, 2), I(2), I(-1) }

SignalAmplitudes == { One }

\* CoupledOscillator([0.5, 1.0], [1.0, 1.0], [[0, 0.5], [0.3, 0]]) and
\* StochasticResonance(signal_freq, noise_level)
InitSim ==
    /\ n_oscillators = 2
    /\ frequencies = <<Half, One>>
    /\ freq_dtype = "float64"
    /\ amplitudes = <<One, One>>
    /\ coupling = Matrix(2, Zero, Half, Q(3, 10))
    /\ constructed = [frequencies |-> frequencies, coupling |-> coupling]
    /\ call = NoCall
    /\ again = <<>>
    /\ sr \in [signal_freq : {Q(3, 8)}, noise_level : {Zero, Half}]
    /\ rng = 0
    /\ ata = [pc |-> "idle"]
    /\ sync_values = <<>>
    /\ results = <<>>
    /\ base = [coupling |-> coupling, rng |-> rng]
    /\ last = [r |-> 0]
    /\ NoScan

\* simulate_kuramoto(t_span, dt, initial_phases)
SimulateKuramotoCall ==
    \E t_span \in TimeSpans, dt \in TimeSteps, ip \in InitialPhases(n_oscillators) :
        LET args == [op |-> "simulate_kuramoto", t_span |-> t_span, dt |-> dt,
                     initial_phases |-> ip, rng0 |-> rng]
            ends(o, t, phases, y0, steps, s1) ==
                /\ call' = [f \in DOMAIN args \cup
                                   {"outcome", "t", "phases", "y0", "steps", "rng1"} |->
                               IF f \in DOMAIN args THEN args[f]
                               ELSE IF f = "outcome" THEN o
                               ELSE IF f = "t" THEN t
                               ELSE IF f = "phases" THEN phases
                               ELSE IF f = "y0" THEN y0
                               ELSE IF f = "steps" THEN steps
                               ELSE s1]
                /\ rng' = s1
        IN  /\ IF dt = Zero
               THEN ends("ZeroDivisionError", <<>>, <<>>, <<>>, 0, rng)
               ELSE LET samples == ArangeLen(t_span[1], t_span[2], dt)
                        sim == simulate_kuramoto(n_oscillators, frequencies, freq_dtype,
                                                 coupling, samples, dt, ip, rng)
                    IN  IF samples = 0
                        THEN \E o \in OdeintEmptyOutcomes :
                                 ends(o, <<>>, <<>>, sim.initial_phases, 0, sim.rng)
                        ELSE ends("returned", Arange(t_span[1], t_span[2], dt),
                                  sim.phases, sim.initial_phases, samples - 1, sim.rng)
            /\ again' = <<>>
            /\ UNCHANGED <<sr, sysvars, sweepvars, scanvars>>

\* StochasticResonance.simulate(duration, dt, signal_amplitude)
ResonanceSimulateCall ==
    \E duration \in Durations, dt \in TimeSteps, signal_amplitude \in SignalAmplitudes :
        LET r == StochasticResonance_simulate(sr, duration, dt, signal_amplitude, rng)
        IN  /\ call' = [op |-> "simulate", self |-> sr, duration |-> duration, dt |-> dt,
                        signal_amplitude |-> signal_amplitude, rng0 |-> rng,
                        outcome |-> r.outcome, t |-> r.t, x |-> r.x,
                        signal |-> r.signal, noise |-> r.noise, steps |-> r.steps,
                        rng1 |-> r.rng]
            /\ rng' = r.rng
            /\ again' = <<>>
            /\ UNCHANGED <<sr, sysvars, sweepvars, scanvars>>

\* other code draws from the global generator between two runs (as lines 117
\* and 279 do: np.random.random, np.random.randn)
OtherDraw ==
    /\ call.op = "simulate"
    /\ again = <<>>
    /\ rng' = RngNext(rng)
    /\ UNCHANGED <<sr, sysvars, derivvars, sweepvars, scanvars>>

\* StochasticResonance.simulate once more, with the arguments of the latest run
ResonanceSimulateAgain ==
    /\ call.op = "simulate"
    /\ again = <<>>
    /\ LET r == StochasticResonance_simulate(sr, call.duration, call.dt,
                                             call.signal_amplitude, rng)
       IN  /\ again' = [outcome |-> r.outcome, t |-> r.t, x |-> r.x,
                         signal |-> r.signal, rng0 |-> rng]
           /\ rng' = r.rng
    /\ UNCHANGED <<sr, sysvars, call, sweepvars, scanvars>>

NextSim ==
    \/ SimulateKuramotoCall
    \/ ResonanceSimulateCall
    \/ OtherDraw
    \/ ResonanceSimulateAgain

SpecSim == InitSim /\ [][NextSim]_vars

\* StochasticResonance under calls of calculate_snr
SpecSnr == InitSim /\ [][NextSnr]_vars

-----------------------------------------------------------------------------
(* TTST: simulate and calculate_synchronization on one object *)

\* np.tanh as the odd saturating function it is: exact at 0 and in both limits,
\* linear between
Tanh(a) ==
    IF NLt(One, a) THEN One
    ELSE IF NLt(a, NNeg(One)) THEN NNeg(One)
    ELSE a

\* TTST.solar_rhythm
solar_rhythm(pr, t) ==
    [k \in DOMAIN t |->
        NMul(pr.solar_amplitude,
             NAdd(Half, NMul(Half, Tanh(NMul(I(10), Sin(Cycle(t[k], pr.solar_period)))))))]

\* rhythm_config['coupling_parameters'] of _get_default_config, which are also
\* the defaults of the three .get calls of lines 160-162
CouplingParameters ==
    [thermal_tidal_coupling |-> Q(3, 10), tidal_solar_coupling |-> Half,
     solar_thermal_coupling |-> Q(2, 10)]

\* lines 165-172
CombinedRhythm(thermal, tidal, solar) ==
    LET alpha == CouplingParameters.thermal_tidal_coupling
        beta  == CouplingParameters.tidal_solar_coupling
        gamma == CouplingParameters.solar_thermal_coupling
    IN  [k \in DOMAIN thermal |->
            NAdd(NAdd(NAdd(NAdd(NAdd(thermal[k], tidal[k]), solar[k]),
                           NMul(NMul(alpha, thermal[k]), tidal[k])),
                      NMul(NMul(beta, tidal[k]), solar[k])),
                 NMul(NMul(gamma, solar[k]), thermal[k]))]

TTST_simulate_keeps_solar(self, pr, duration, dt, s) ==
    IF dt = Zero
    THEN [outcome |-> "ZeroDivisionError", series |-> self, rng |-> s, ret |-> <<>>]
    ELSE LET time    == Arange(Zero, duration, dt)
             thermal == thermal_rhythm(pr, time, s)
             tidal   == tidal_rhythm(pr, time)
             solar   == solar_rhythm(pr, time)
             combined == CombinedRhythm(thermal.v, tidal, solar)
         IN  [outcome |-> "returned",
              series |-> [time |-> SetTo(time), thermal |-> SetTo(thermal.v),
                          tidal |-> SetTo(tidal),
                          solar |-> IF self.solar.set THEN self.solar ELSE SetTo(solar),
                          combined_rhythm |-> SetTo(combined)],
              rng |-> thermal.rng,
              ret |-> <<time, combined>>]

\* TTST.simulate(duration, dt) on an object whose five attributes are `self`,
\* from generator state s: how the call ends, the attributes and the generator
\* state it leaves, the pair it returns
TTST_simulate(self, pr, duration, dt, s) ==
    IF dt = Zero
    THEN [outcome |-> "ZeroDivisionError", series |-> self, rng |-> s, ret |-> <<>>]
    ELSE LET time    == Arange(Zero, duration, dt)
             thermal == thermal_rhythm(pr, time, s)
             tidal   == tidal_rhythm(pr, time)
             solar   == solar_rhythm(pr, time)
             combined == CombinedRhythm(thermal.v, tidal, solar)
         IN  [outcome |-> "returned",
              series |-> [time |-> SetTo(time), thermal |-> SetTo(thermal.v),
                          tidal |-> SetTo(tidal), solar |-> SetTo(solar),
                          combined_rhythm |-> SetTo(combined)],
              rng |-> thermal.rng,
              ret |-> <<time, combined>>]

\* TTST.calculate_synchronization: lines 182-183 raise when thermal or tidal
\* is None; scipy.signal.hilbert raises on an array without a sample
calculate_synchronization(self) ==
    IF ~self.thermal.set \/ ~self.tidal.set
    THEN [outcome |-> "ValueError", message |-> "Must run simulate() first", ret |-> NaN]
    ELSE IF Len(self.thermal.v) = 0
    THEN [outcome |-> "ValueError", message |-> "N must be positive.", ret |-> NaN]
    ELSE [outcome |-> "returned", message |-> "",
          ret |-> SyncIndex(self.thermal.v, self.tidal.v)]

\* parameters other than the defaults of the dataclass
OtherParameters ==
    [thermal_period |-> I(2), tidal_period |-> Q(31, 5), solar_period |-> I(12),
     thermal_amplitude |-> I(2), tidal_amplitude |-> Half, solar_amplitude |-> I(3),
     coupling_strength |-> Half, noise_level |-> I(5)]

\* the arguments (duration, dt) of TTST.simulate
TTSTGrids ==
    { <<Q(62, 5), Q(31, 10)>>, <<Q(31, 5), Q(31, 10)>>, <<Q(31, 10), Q(31, 10)>>,
      <<Zero, Q(31, 10)>>, <<One, Zero>> }

\* TTST(params)
InitTTST ==
    /\ n_oscillators = 0
    /\ frequencies = <<>>
    /\ freq_dtype = "float64"
    /\ amplitudes = <<>>
    /\ coupling = <<>>
    /\ constructed = [frequencies |-> frequencies, coupling |-> coupling]
    /\ call = [op |-> "none", simulated |-> FALSE, run |-> <<>>]
    /\ again = <<>>
    /\ sr = <<>>
    /\ rng = 0
    /\ ata = [pc |-> "idle"]
    /\ sync_values = <<>>
    /\ results = <<>>
    /\ base = [coupling |-> coupling, rng |-> rng]
    /\ last = [r |-> 0]
    /\ params \in {TTSTParameters(Half, Q(62, 5), I(24)), OtherParameters}
    /\ scan = [pc |-> "idle"]
    /\ sync_map = <<>>
    /\ returned = <<>>
    /\ written = <<>>
    /\ series = NoSeries

\* TTST.simulate(duration, dt)
TTSTSimulateCall ==
    \E grid \in TTSTGrids :
        LET r   == TTST_simulate(series, params, grid[1], grid[2], rng)
            run == [duration |-> grid[1], dt |-> grid[2], rng0 |-> rng]
            ok  == r.outcome = "returned"
        IN  /\ series' = r.series
            /\ rng' = r.rng
            /\ call' = [op |-> "TTST.simulate", duration |-> grid[1], dt |-> grid[2],
                        outcome |-> r.outcome, ret |-> r.ret, before |-> series,
                        simulated |-> call.simulated \/ ok,
                        run |-> IF ok THEN run ELSE call.run]
            /\ UNCHANGED <<sr, sysvars, again, sweepvars, params, scan, sync_map,
                           returned, written>>

\* TTST.calculate_synchronization()
CalculateSynchronizationCall ==
    LET r == calculate_synchronization(series)
    IN  /\ call' = [op |-> "calculate_synchronization", outcome |-> r.outcome,
                    message |-> r.message, ret |-> r.ret, before |-> series,
                    simulated |-> call.simulated, run |-> call.run]
        /\ UNCHANGED <<sr, sysvars, again, rng, sweepvars, scanvars>>

\* a TTST object about to be scanned: built with either set of parameters,
\* fresh or after a simulate call
InitCaller ==
    /\ n_oscillators = 0
    /\ frequencies = <<>>
    /\ freq_dtype = "float64"
    /\ amplitudes = <<>>
    /\ coupling = <<>>
    /\ constructed = [frequencies |-> frequencies, coupling |-> coupling]
    /\ call = NoCall
    /\ again = <<>>
    /\ sr = <<>>
    /\ rng \in RngStates
    /\ ata = [pc |-> "idle"]
    /\ sync_values = <<>>
    /\ results = <<>>
    /\ base = [coupling |-> coupling, rng |-> rng]
    /\ last = [r |-> 0]
    /\ params \in {TTSTParameters(Half, Q(62, 5), I(24)), OtherParameters}
    /\ scan = [pc |-> "idle"]
    /\ sync_map = <<>>
    /\ returned = <<>>
    /\ written = <<>>
    /\ series \in {NoSeries,
                    TTST_simulate(NoSeries, params, Q(62, 5), Q(31, 10), 0).series}

\* find_arnold_tongues called on such an object
SpecCaller == InitCaller /\ [][NextScan]_vars

NextTTST == TTSTSimulateCall \/ CalculateSynchronizationCall

SpecTTST == InitTTST /\ [][NextTTST]_vars

-----------------------------------------------------------------------------
(* Claims about the derivative laws, checked under SpecDeriv *)

AllZeroCoupling ==
    \A i \in 1..n_oscillators : \A j \in 1..n_oscillators : coupling[i][j] = Zero

PhasesDiffer ==
    \E i \in 1..n_oscillators : \E j \in 1..n_oscillators :
        Sin(NSub(call.arg[j], call.arg[i])) # Zero

\* C7: with an all-zero coupling matrix kuramoto_model returns exactly the
\* natural frequencies, whatever the phases and the number of oscillators.
C7_ZeroCouplingReturnsFrequencies ==
    (call.op = "kuramoto_model" /\ AllZeroCoupling) => call.ret = frequencies

C7_Witness ==
    /\ call.op = "kuramoto_model"
    /\ AllZeroCoupling
    /\ n_oscillators >= 2
    /\ PhasesDiffer

\* the Kuramoto law for oscillator i at the phases of the latest call
KuramotoLaw(i) ==
    NAdd(frequencies[i],
         NSum([j \in 1..n_oscillators |->
                  IF j # i
                  THEN NMul(coupling[i][j], Sin(NSub(call.arg[j], call.arg[i])))
                  ELSE Zero],
              1..n_oscillators))

\* C8: for integer and for real frequency lists alike, kuramoto_model returns
\* for each i the frequency plus the sum over j # i of K[i][j]*sin(th_j - th_i),
\* not divided by N and not rounded.
C8_ReturnsKuramotoLaw ==
    call.op = "kuramoto_model" =>
        \A i \in 1..n_oscillators : call.ret[i] = KuramotoLaw(i)

WithDiagonal(K, dg) ==
    [i \in DOMAIN K |-> [j \in DOMAIN K[i] |-> IF i = j THEN dg ELSE K[i][j]]]

\* C9: two coupling matrices that differ only on the diagonal give the same
\* kuramoto_model and the same van_der_pol_coupled output at every state.
C9_DiagonalNeverRead ==
    \A dg \in DiagValues :
        /\ call.op = "kuramoto_model" =>
              kuramoto_model(n_oscillators, frequencies, freq_dtype,
                             WithDiagonal(coupling, dg), call.arg).ret = call.ret
        /\ call.op = "van_der_pol_coupled" =>
              van_der_pol_coupled(n_oscillators, frequencies,
                                  WithDiagonal(coupling, dg), call.arg, call.mu).ret
                  = call.ret

C9_Witness ==
    /\ call.op \in {"kuramoto_model", "van_der_pol_coupled"}
    /\ n_oscillators >= 2
    /\ coupling[1][1] = NaN
    /\ coupling[1][2] # Zero
    /\ \A k \in DOMAIN call.ret : IsFinite(call.ret[k])

\* C10: kuramoto_model leaves the stored frequencies, the coupling matrix and
\* the caller's phase vector as they were, and a second call at the same phases
\* returns what the first returned.
C10_KuramotoHasNoSideEffects ==
    /\ frequencies = constructed.frequencies
    /\ coupling = constructed.coupling
    /\ call.op = "kuramoto_model" =>
          /\ call.arg_after = call.arg
          /\ again # <<>> => again = call.ret

C10_Witness ==
    /\ call.op = "kuramoto_model"
    /\ again # <<>>
    /\ call.ret # frequencies

-----------------------------------------------------------------------------
(* Claims about calculate_order_parameter, checked under SpecOrder *)

AllPhasesEqual(row) == \A i \in DOMAIN row : \A j \in DOMAIN row : row[i] = row[j]

\* C11: calculate_order_parameter on a trajectory of T time steps returns T
\* values, each in [0, 1], and the value is 1 at every time step where all the
\* phases are equal.
C11_OrderParameterInUnitInterval ==
    call.op = "calculate_order_parameter" =>
        /\ DOMAIN call.ret = DOMAIN call.arg
        /\ \A t \in DOMAIN call.ret :
              /\ NLe(Zero, call.ret[t]) /\ NLe(call.ret[t], One)
              /\ AllPhasesEqual(call.arg[t]) => call.ret[t] = One

C11_Witness ==
    /\ call.op = "calculate_order_parameter"
    /\ n_oscillators >= 2
    /\ Len(call.arg) >= 2
    /\ \E t \in DOMAIN call.arg : AllPhasesEqual(call.arg[t]) /\ call.ret[t] = One
    /\ \E t \in DOMAIN call.arg : NLt(call.ret[t], One)

-----------------------------------------------------------------------------
(* Claims about van_der_pol_coupled, checked under SpecDeriv *)

\* the velocity derivative of oscillator i at the state of the latest call
VdpLaw(i) ==
    LET x(k) == call.arg[2 * k - 1]
        v(k) == call.arg[2 * k]
    IN  NAdd(NSub(NMul(NMul(call.mu, NSub(One, NMul(x(i), x(i)))), v(i)),
                  NMul(NMul(frequencies[i], frequencies[i]), x(i))),
             NSum([j \in 1..n_oscillators |->
                      IF j # i THEN NMul(coupling[i][j], NSub(x(j), x(i))) ELSE Zero],
                  1..n_oscillators))

\* C12: van_der_pol_coupled keeps the interleaved layout: of the 2N values it
\* returns, the one at the place of x_i is v_i and the one at the place of v_i
\* is mu*(1 - x_i^2)*v_i - w_i^2*x_i + sum over j # i of K[i][j]*(x_j - x_i);
\* the state vector it was given is left as it was.
C12_VanDerPolKeepsLayout ==
    call.op = "van_der_pol_coupled" =>
        /\ DOMAIN call.ret = 1..(2 * n_oscillators)
        /\ \A i \in 1..n_oscillators :
              /\ call.ret[2 * i - 1] = call.arg[2 * i]
              /\ call.ret[2 * i] = VdpLaw(i)
        /\ call.arg_after = call.arg

C12_Witness ==
    /\ call.op = "van_der_pol_coupled"
    /\ n_oscillators >= 2
    /\ coupling[1][2] # Zero
    /\ call.arg[1] # call.arg[3]
    /\ call.arg[2] # Zero
    /\ call.ret[1] # call.ret[2]
    /\ \A k \in DOMAIN call.ret : IsFinite(call.ret[k])

-----------------------------------------------------------------------------
(* Claims about arnold_tongue_analysis, checked under SpecSweep *)

\* the base matrix (the one held when the call started) rescaled to maximum s
FreshRescale(strength) == Rescale(base.coupling, strength)

\* C1: the matrix each iteration simulates with is the base matrix rescaled so
\* that its maximum is the iteration's strength, whatever was processed before.
C1_IterationUsesRescaledBase ==
    (ata.pc = "loop" /\ last.r > 0) => last.matrix = FreshRescale(last.strength)

\* C2: when arnold_tongue_analysis has returned, the system's coupling matrix is
\* the one it held before the call.
C2_CouplingRestoredOnReturn ==
    ata.pc = "returned" => coupling = base.coupling

\* the base matrix is finite and non-negative with a positive maximum
BaseNonNegative ==
    /\ \A i \in DOMAIN base.coupling : \A j \in DOMAIN base.coupling[i] :
          IsFinite(base.coupling[i][j]) /\ NLe(Zero, base.coupling[i][j])
    /\ NLt(Zero, MatrixMax(base.coupling))

\* every strength the call has tested so far is finite and positive
StrengthsSoFarPositive ==
    \A k \in DOMAIN ata.coupling_strengths :
        (last.r > 1 \/ k <= last.k) =>
            /\ IsFinite(ata.coupling_strengths[k])
            /\ NLt(Zero, ata.coupling_strengths[k])

\* C27: while the base matrix is non-negative with a positive maximum and
\* every strength tested so far is positive, the in-place rescale leaves the
\* maximum of the matrix equal to the iteration's strength, and the matrix is
\* the one a fresh copy of the base matrix rescaled to that strength would be.
C27_InPlaceEqualsFreshWhilePositive ==
    (last.r > 0 /\ BaseNonNegative /\ StrengthsSoFarPositive) =>
        /\ MatrixMax(last.matrix) = last.strength
        /\ last.matrix = Scaled(base.coupling,
                                NDiv(last.strength, MatrixMax(base.coupling)))

C27_Witness ==
    /\ last.r > 1 /\ last.k > 1
    /\ BaseNonNegative /\ StrengthsSoFarPositive
    /\ base.coupling # TTSTCoupling
    /\ last.matrix # base.coupling
    /\ last.strength # ata.coupling_strengths[1]

InUnitInterval(a) == IsFinite(a) /\ NLt(Zero, a) /\ NLe(a, One)

\* C3: every synchronization score the sweep records is finite and in (0, 1],
\* the default coupling range (0, 1) included.
C3_ScoresInUnitInterval ==
    /\ \A k \in DOMAIN sync_values : InUnitInterval(sync_values[k])
    /\ \A key \in DOMAIN results :
          \A k \in DOMAIN results[key] : InUnitInterval(results[key][k])

\* C14: the window the score is computed over is the last 1000 samples of
\* the wrapped difference p*th_0 - q*th_1 when there are at least 1000, and all
\* of them otherwise; every sample of the wrapped difference is in [0, 2*pi).
C14_WindowOfWrappedDifference ==
    (ata.pc = "loop" /\ last.r > 0) =>
        /\ last.window =
              IF Len(last.wrapped) >= 1000
              THEN SubSeq(last.wrapped, Len(last.wrapped) - 999, Len(last.wrapped))
              ELSE last.wrapped
        /\ \A k \in DOMAIN last.wrapped :
              NLe(Zero, last.wrapped[k]) /\ NLt(last.wrapped[k], I(4))

-----------------------------------------------------------------------------
(* Claims about find_arnold_tongues, checked under SpecScan *)

IsGrid(m, resolution) ==
    /\ DOMAIN m = 1..resolution
    /\ \A i \in 1..resolution : DOMAIN m[i] = 1..resolution

RowMajor(n, resolution) == <<((n - 1) \div resolution) + 1, ((n - 1) % resolution) + 1>>

\* C5: the grid is visited in row-major order, cell (i, j) is written once, with
\* the score for (thermal_periods[i], tidal_periods[j]), and the caller gets the
\* map only when all R*R cells have been written.
C5_RowMajorWriteOnceThenReturn ==
    scan.pc # "idle" =>
        /\ Len(written) <= scan.resolution * scan.resolution
        /\ \A n \in DOMAIN written :
              /\ <<written[n].i, written[n].j>> = RowMajor(n, scan.resolution)
              /\ written[n].thermal_period = scan.thermal_periods[written[n].i]
              /\ written[n].tidal_period = scan.tidal_periods[written[n].j]
              /\ sync_map[written[n].i][written[n].j] = written[n].sync
        /\ scan.pc = "loop" => returned = <<>>
        /\ scan.pc = "returned" =>
              /\ Len(written) = scan.resolution * scan.resolution
              /\ returned = sync_map

C5_Witness ==
    /\ scan.pc = "returned"
    /\ scan.resolution >= 2
    /\ scan.thermal_periods[1] # scan.thermal_periods[2]
    /\ scan.tidal_periods[1] # scan.tidal_periods[2]
    /\ returned[1][2] # returned[2][1]

\* C6: the score of a cell is determined by the cell's own parameters: it is the
\* score the cell gets when it is computed first, from the state the scan
\* started in, so earlier cells leave nothing behind that changes it.
C6_CellsIndependentOfOrder ==
    scan.pc # "idle" =>
        \A n \in DOMAIN written :
            written[n].sync =
                CellSync(written[n].thermal_period, written[n].tidal_period,
                         params.solar_period, scan.rng0).sync

-----------------------------------------------------------------------------
(* Claims about biological_feedback and the ratio-lock score, checked under
   SpecCalls *)

\* C13: biological_feedback changes only velocity derivatives: each position
\* derivative is the one van_der_pol_coupled returns for the same state, and
\* velocity derivative i is the van_der_pol_coupled value plus
\* feedback_strength * (sum over k of amplitude_k * x_k) * x_i.
C13_FeedbackOnVelocitiesOnly ==
    call.op = "biological_feedback" =>
        LET vdp == van_der_pol_coupled(n_oscillators, frequencies, coupling,
                                       call.arg, One).ret
            x(k) == call.arg[2 * k - 1]
            combined == NSum([k \in 1..n_oscillators |-> NMul(amplitudes[k], x(k))],
                             1..n_oscillators)
        IN  \A i \in 1..n_oscillators :
                /\ call.ret[2 * i - 1] = vdp[2 * i - 1]
                /\ call.ret[2 * i] =
                       NAdd(vdp[2 * i],
                            NMul(NMul(call.feedback_strength, combined), x(i)))

C13_Witness ==
    /\ call.op = "biological_feedback"
    /\ call.arg[1] # call.arg[3]
    /\ call.arg[1] # Zero /\ call.arg[3] # Zero
    /\ call.arg[2] # Zero
    /\ call.ret[2] # van_der_pol_coupled(n_oscillators, frequencies, coupling,
                                          call.arg, One).ret[2]
    /\ call.ret[4] # van_der_pol_coupled(n_oscillators, frequencies, coupling,
                                          call.arg, One).ret[4]

IsConstant(w) == \A k \in DOMAIN w : IsFinite(w[k]) /\ w[k] = w[1]

\* C15: the ratio-lock score is exactly 1 when the wrapped phase difference is
\* the same at every sample of the window, and a window with larger variance
\* gets a strictly smaller score.
C15_ScoreOneWhenConstantElseSmaller ==
    call.op = "ratio_lock_score" =>
        /\ IsConstant(call.window) => call.ret = One
        /\ \A ph \in LockTrajectories, pq \in LockRatios :
              LET w == LastSamples(PhaseDiffWrapped(pq[1], pq[2], ph), Window)
              IN  NLt(Var(call.window), Var(w)) =>
                      NLt(SyncMeasure(pq[1], pq[2], ph), call.ret)

C15_Witness ==
    /\ call.op = "ratio_lock_score"
    /\ Len(call.window) >= 2
    /\ IsConstant(call.window)
    /\ call.window[1] # Zero
    /\ call.ret = One
    /\ \E ph \in LockTrajectories :
          NLt(SyncMeasure(call.p, call.q, ph), One)

-----------------------------------------------------------------------------
(* Claims about the simulation calls, checked under SpecSim *)

\* the periodic forcing at time t of the latest StochasticResonance run
Forcing(t) ==
    NMul(call.signal_amplitude, Sin(NMul(NMul(I(4), sr.signal_freq), t)))

\* C16: every update of StochasticResonance.simulate is the Euler-Maruyama
\* step x[k+1] = x[k] + drift(x[k], t[k])*dt + noise: the potential force and
\* the forcing are both taken at step k, the step being left, and each step
\* uses a noise sample of its own.
C16_EulerMaruyamaStep ==
    (call.op = "simulate" /\ call.outcome = "returned") =>
        \A k \in 1..(Len(call.x) - 1) :
            call.x[k + 1] =
                NAdd(NAdd(call.x[k],
                          NMul(NAdd(NNeg(potential_derivative(call.x[k])),
                                    Forcing(call.t[k])),
                               call.dt)),
                     call.noise[k + 1])

\* a time step that is not positive, or a time grid without a point
BadTimeGrid ==
    \/ /\ call.op = "simulate_kuramoto"
       /\ NLe(call.dt, Zero) \/ NLe(call.t_span[2], call.t_span[1])
    \/ /\ call.op = "simulate"
       /\ NLe(call.dt, Zero) \/ NLt(call.duration, call.dt)

\* C17: simulate_kuramoto and StochasticResonance.simulate reject a time step
\* that is not positive and an empty time grid with an error, raised before any
\* random number is drawn and before any integration step.
C17_BadTimeGridRejectedFirst ==
    BadTimeGrid =>
        /\ call.outcome \in {"ValueError", "ZeroDivisionError", "IndexError"}
        /\ call.rng1 = call.rng0
        /\ call.steps = 0

\* C20: two runs of StochasticResonance.simulate in a process seeded once,
\* with the same object and arguments, return the same trajectory, whatever
\* was drawn from the generator in between.
C20_SameSeedSameTrajectory ==
    (call.op = "simulate" /\ again # <<>>) =>
        /\ again.outcome = call.outcome
        /\ again.x = call.x

-----------------------------------------------------------------------------
(* Claims about calculate_snr, checked under SpecSnr *)

\* the noise power is zero, or no frequency bin qualifies as noise
DegenerateNoise ==
    call.noise_mask = {} \/ call.noise_power = Zero

\* C19: when the noise power is zero or no bin qualifies as noise,
\* calculate_snr returns negative infinity or NaN (or raises), never a finite
\* number and never positive infinity.
C19_DegenerateNoiseGivesSentinel ==
    (call.op = "calculate_snr" /\ DegenerateNoise) => call.ret \in {NegInf, NaN}

\* C26: the frequency bin whose power calculate_snr takes as the signal power
\* is never one of the bins it averages into the noise power, whatever the
\* length of the series and whatever signal_freq, in or out of the range of
\* the bins.
C26_SignalBinNotInNoise ==
    call.op = "calculate_snr" => call.signal_idx \notin call.noise_mask

-----------------------------------------------------------------------------
(* Claims about the constructor, checked under SpecConstruct *)

\* at least one oscillator, one amplitude per oscillator, an N x N matrix
MatchingDimensions ==
    /\ n_oscillators >= 1
    /\ Len(frequencies) = n_oscillators
    /\ Len(amplitudes) = n_oscillators
    /\ DOMAIN coupling = 1..n_oscillators
    /\ \A i \in DOMAIN coupling : DOMAIN coupling[i] = 1..n_oscillators

\* C18: an empty frequency list, an amplitude list of another length and a
\* coupling matrix that is not N x N are refused at construction, so that no
\* object exists, and no derivative method runs, with mismatched dimensions.
C18_MismatchedDimensionsRefused ==
    /\ constructed.done => MatchingDimensions
    /\ call.op = "kuramoto_model" => MatchingDimensions

-----------------------------------------------------------------------------
(* Further claims about the simulation calls, checked under SpecSim *)

\* the latest simulate_kuramoto call got as far as its time grid
PastTimeGrid == call.op = "simulate_kuramoto" /\ call.outcome # "ZeroDivisionError"

\* C21: simulate_kuramoto draws one random initial phase per oscillator, each
\* in [0, 2*pi), when no initial phases are given, and only then; with initial
\* phases given it draws nothing and its result is the same from every state
\* of the generator.
C21_DrawsIffNoInitialPhases ==
    PastTimeGrid =>
        /\ call.initial_phases = <<>> =>
              /\ call.rng1 = RngAdvance(call.rng0, n_oscillators)
              /\ DOMAIN call.y0 = 1..n_oscillators
              /\ \A i \in 1..n_oscillators :
                    /\ call.y0[i] = NMul(I(4), Uniform(RngAdvance(call.rng0, i - 1)))
                    /\ NLe(Zero, call.y0[i]) /\ NLt(call.y0[i], I(4))
        /\ call.initial_phases # <<>> =>
              /\ call.rng1 = call.rng0
              /\ call.y0 = call.initial_phases
              /\ call.outcome = "returned" =>
                    \A s \in RngStates :
                        simulate_kuramoto(n_oscillators, frequencies, freq_dtype,
                                          coupling, Len(call.t), call.dt,
                                          call.initial_phases, s).phases = call.phases

C21_Witness ==
    /\ PastTimeGrid
    /\ call.outcome = "returned"
    /\ call.initial_phases = <<>>
    /\ call.steps >= 2
    /\ call.rng0 # 0
    /\ call.y0[1] # call.y0[2]

\* the latest StochasticResonance.simulate call, with a finite duration and a
\* positive time step
ResonanceRun == call.op = "simulate" /\ NLt(Zero, call.dt) /\ IsFinite(call.duration)

\* C22: a run of StochasticResonance.simulate is one-shot: it makes exactly
\* int(duration/dt) - 1 passes of the integration loop, one per index after
\* the first, then is complete and returns; it ends so for every finite
\* duration and positive dt, and leaves signal_freq and noise_level as they
\* were.
C22_OneShotRunCompletes ==
    ResonanceRun =>
        /\ call.outcome = "returned"
        /\ call.steps = PyInt(NDiv(call.duration, call.dt)) - 1
        /\ Len(call.x) = call.steps + 1
        /\ sr = call.self

\* C24: the time points returned by StochasticResonance.simulate start at 0
\* and advance by exactly dt, the step of the Euler-Maruyama update; time,
\* trajectory and signal all have int(duration/dt) entries.
C24_TimeGridAdvancesByDt ==
    (call.op = "simulate" /\ call.outcome = "returned") =>
        /\ Len(call.t) = PyInt(NDiv(call.duration, call.dt))
        /\ Len(call.x) = Len(call.t)
        /\ Len(call.signal) = Len(call.t)
        /\ call.t[1] = Zero
        /\ \A k \in 1..(Len(call.t) - 1) :
              /\ NLt(call.t[k], call.t[k + 1])
              /\ NSub(call.t[k + 1], call.t[k]) = call.dt

\* C25: simulate_kuramoto returns one phase vector per time point; the time
\* points start at t_span[0], advance by dt and stay below t_span[1]; the
\* first phase vector is the supplied initial phases.
C25_TrajectoryOnHalfOpenGrid ==
    (call.op = "simulate_kuramoto" /\ call.outcome = "returned") =>
        /\ Len(call.phases) = Len(call.t)
        /\ Len(call.t) >= 1
        /\ \A k \in 1..Len(call.t) :
              /\ call.t[k] = NAdd(call.t_span[1], NMul(I(k - 1), call.dt))
              /\ NLt(call.t[k], call.t_span[2])
        /\ call.initial_phases # <<>> => call.phases[1] = call.initial_phases

-----------------------------------------------------------------------------
(* Claims about the stored coupling matrix, checked under SpecOwn *)

\* C28: the constructor stores a copy of the coupling matrix it is given: the
\* caller's matrix object is never changed by an operation of the system, the
\* in-place rescale of arnold_tongue_analysis included; given no matrix, it
\* stores 0.1 off the diagonal and 0 on it.
C28_ConstructorKeepsOwnCopy ==
    constructed.done =>
        /\ ~constructed.shares
        /\ constructed.argument.given =>
              /\ constructed.passed = constructed.argument.matrix
              /\ constructed.coupling = constructed.argument.matrix
        /\ ~constructed.argument.given =>
              /\ DOMAIN constructed.coupling = 1..n_oscillators
              /\ \A i \in 1..n_oscillators :
                    /\ DOMAIN constructed.coupling[i] = 1..n_oscillators
                    /\ \A j \in 1..n_oscillators :
                          constructed.coupling[i][j] = IF i = j THEN Zero ELSE Q(1, 10)

C28_Witness ==
    /\ constructed.done
    /\ constructed.argument.given
    /\ last.r > 0
    /\ coupling # constructed.argument.matrix
    /\ constructed.passed = constructed.argument.matrix

-----------------------------------------------------------------------------
(* Claims about the TTST object, checked under SpecTTST *)

\* C23: calculate_synchronization raises ValueError('Must run simulate()
\* first') exactly when no simulate call has completed on the object; after a
\* simulate call it returns an index in [0, 1]; it changes none of the stored
\* series.
C23_SynchronizationNeedsSimulate ==
    call.op = "calculate_synchronization" =>
        /\ (call.outcome = "ValueError" /\ call.message = "Must run simulate() first")
               <=> ~call.simulated
        /\ call.simulated =>
              /\ call.outcome = "returned"
              /\ NLe(Zero, call.ret) /\ NLe(call.ret, One)
        /\ series = call.before

\* every one of the five attributes is None
AllUnset ==
    \A f \in DOMAIN series : ~series[f].set

\* C29: the attributes time, thermal, tidal, solar and combined_rhythm are all
\* unset, or all set to series of one length computed by the latest completed
\* simulate call; nothing of an earlier run remains.
C29_SeriesSetTogether ==
    \/ AllUnset /\ ~call.simulated
    \/ /\ call.simulated
       /\ \A f \in DOMAIN series :
             series[f].set /\ Len(series[f].v) = Len(series.time.v)
       /\ series.time.v = Arange(Zero, call.run.duration, call.run.dt)
       /\ series.thermal.v = thermal_rhythm(params, series.time.v, call.run.rng0).v
       /\ series.tidal.v = tidal_rhythm(params, series.time.v)
       /\ series.solar.v = solar_rhythm(params, series.time.v)
       /\ series.combined_rhythm.v =
              CombinedRhythm(series.thermal.v, series.tidal.v, series.solar.v)

C29_Witness ==
    /\ call.op = "TTST.simulate"
    /\ call.outcome = "returned"
    /\ call.before.time.set
    /\ Len(call.before.time.v) = 4
    /\ Len(series.time.v) = 2
    /\ series.combined_rhythm.v # SubSeq(call.before.combined_rhythm.v, 1, 2)

-----------------------------------------------------------------------------
(* Claims about the object find_arnold_tongues is called on, checked under
   SpecCaller *)

\* the parameters of a fresh TTST for the cell written as w: the cell's two
\* periods, the caller's solar period, every other field at its default
FreshParameters(w) ==
    [thermal_period |-> w.thermal_period, tidal_period |-> w.tidal_period,
     solar_period |-> scan.params0.solar_period,
     thermal_amplitude |-> One, tidal_amplitude |-> One, solar_amplitude |-> One,
     coupling_strength |-> Q(3, 10), noise_level |-> Q(1, 10)]

\* the score of a TTST with parameters pr, simulated on the scan's grid from
\* generator state s
ScoreWith(pr, s) ==
    LET time == Arange(Zero, NMul(I(ScanSamples), ScanDt), ScanDt)
    IN  calculate_synchronization(
            [NoSeries EXCEPT !.thermal = SetTo(thermal_rhythm(pr, time, s).v),
                             !.tidal = SetTo(tidal_rhythm(pr, time))]).ret

\* C30: every cell of find_arnold_tongues is computed on a fresh TTST built
\* from the cell's thermal and tidal period and the caller's solar period,
\* with the default amplitudes, coupling strength and noise level, not the
\* caller's; the caller's params and stored series are as they were
\* throughout the scan and when it returns.
C30_CellsOnFreshObjects ==
    /\ \A n \in DOMAIN written :
          written[n].sync = ScoreWith(FreshParameters(written[n]), written[n].rng)
    /\ scan.pc # "idle" => params = scan.params0 /\ series = scan.series0

C30_Witness ==
    /\ scan.pc = "returned"
    /\ params = OtherParameters
    /\ series.thermal.set
    /\ Len(written) >= 2
    /\ \E n \in DOMAIN written :
          written[n].sync #
              ScoreWith([params EXCEPT !.thermal_period = written[n].thermal_period,
                                       !.tidal_period = written[n].tidal_period],
                        written[n].rng)

=============================================================================
